---- MODULE Spec2Model ----
(***************************************************************************)
(* Model of cheapskate.ai.                                                 *)
(*                                                                         *)
(* The negotiation engine (src/lowballer.py): the per-seller conversation  *)
(* records kept by LowballerAgent, the operations sync_conversation,       *)
(* negotiate and respond_to_counter that change them, the Ackerman offer   *)
(* calculation _calculate_offer, the classification of a seller reply and  *)
(* the generation of a message from what the completion provider returns.  *)
(*                                                                         *)
(* The dispatcher (src/controller.py): run, _execute_tool_calls and the    *)
(* handlers of search_carousell, extract_listings, open_listing, open_chat *)
(* and delegate_lowball over the listings of src/mocks/mock_dom.py.        *)
(*                                                                         *)
(* Not modelled: timestamps (datetime.now(), never read back), the text    *)
(* of the prompts, and the wording of an offer message inside negotiate,   *)
(* which is a token.  Prices are integers; for integer prices in the       *)
(* modelled range int(price * (percent / 100)) equals the integer quotient *)
(* (price * percent) \div 100.  A call on the browser page that the code   *)
(* makes outside a try block is taken to complete.                         *)
(***************************************************************************)
EXTENDS Integers, Sequences, FiniteSets, TLC

VARIABLES
    chat_history,   \* LowballerAgent.chat_history: seller id -> conversation record
    disk,           \* contents of chat_history.json
    thread,         \* the seller's chat thread as the marketplace page shows it
    calc,           \* arguments and result of the last _calculate_offer call
    listing,        \* the listing whose chat the dispatcher has open
    call,           \* the last engine call: its arguments and what it returned
    ops,            \* number of engine calls made so far
    llm,            \* the last completion the engine asked for and what it made of it
    current_listings,       \* ControllerAgent.current_listings
    conversation_history,   \* ControllerAgent.conversation_history
    page_url,               \* where the shared browser page is
    dispatch,               \* the last batch of tool calls and its outcome
    loader,                 \* BrowserLoader, its background tasks and the program using it
    popup                   \* one dismiss_popups call: its inputs and what it did

engine_vars == <<chat_history, disk, thread, calc, listing, call, ops>>

controller_vars ==
    <<current_listings, conversation_history, page_url, dispatch, loader>>

vars == <<chat_history, disk, thread, calc, listing, call, ops, llm,
          current_listings, conversation_history, page_url, dispatch, loader,
          popup>>

----------------------------------------------------------------------------
(* Bounds of the model *)

MaxOps == 2          \* engine calls per behaviour
MaxThread == 1       \* messages the seller posts per behaviour
MaxPrice == 800     \* largest listing price of the offer specification
MaxCalcRound == 6    \* rounds of the offer specification
MaxCalls == 2        \* tool calls and free-text replies per behaviour
MaxRuns == 6         \* run() calls of a long session
MaxScrape == 3       \* messages of the thread in the synchronization specification
MaxTurns == 3        \* run() calls of the inbox session
MaxAttempts == 2     \* largest max_attempts of a dismiss_popups call

(* Program constants *)

max_negotiation_rounds == 5
AccuratePriceThreshold == 100
FinalTier == 4
DefaultPercent == 100
HistoryWindow == 10

ackerman_percentages == (1 :> 65) @@ (2 :> 85) @@ (3 :> 95) @@ (4 :> 100)

JitterOffsets == {-3, -7, 2, 8, -2, 3}

None == "None"
Contextual == <<"contextual">>
Amount(n) == <<"amount", n>>

----------------------------------------------------------------------------
(* Listings handed to the engine.  A title is kept as the pair of its      *)
(* first 20 characters and the rest, so that title[:20] is title[1].       *)

ListingA ==
    [seller_name |-> "techseller88",
     title |-> <<"iPhone 14 Pro 256GB", "">>,
     price |-> 800]

\* the dummy listing _handle_check_chat builds for an inbox thread
ListingD ==
    [seller_name |-> "techseller88",
     title |-> <<"ok deal", "">>,
     price |-> 100]

Listings == {ListingA, ListingD}

Pages == {None, "page"}

OfferText == "offer"
ConfirmText == "Great! When and where can I collect? Cash ready"

CounterText(p) ==
    IF p = 100 THEN "Counter-offered at $100" ELSE "Counter-offered at $900"

DealText(p) ==
    IF p = 100 THEN "Deal! $100 works for me. When can I collect?"
    ELSE "Deal! $900 works for me. When can I collect?"

Analyses == {"ACCEPT", "COUNTER", "REJECT"}

----------------------------------------------------------------------------
(* Pure helpers *)

_get_seller_id(listing_data) ==
    <<listing_data.seller_name, listing_data.title[1]>>

Max2(a, b) == IF a >= b THEN a ELSE b
Min2(a, b) == IF a <= b THEN a ELSE b

\* variant: a round outside the schedule falls back to the first tier
PercentFor_firstTier(round_num) ==
    IF round_num \in DOMAIN ackerman_percentages
    THEN ackerman_percentages[round_num]
    ELSE ackerman_percentages[1]

PercentFor(round_num) ==
    IF round_num \in DOMAIN ackerman_percentages
    THEN ackerman_percentages[round_num]
    ELSE DefaultPercent

\* variant: percent / 100 taken as an integer quotient before multiplying
_calculate_offer_intpercent(listing_price, round_num, offset) ==
    LET percent == PercentFor(round_num)
        base_offer == listing_price * (percent \div 100)
        precise_offer == base_offer + offset
    IN  Max2(precise_offer, 1)

\* variant: the jittered amount is returned as it is
_calculate_offer_nofloor(listing_price, round_num, offset) ==
    LET percent == PercentFor(round_num)
        base_offer == (listing_price * percent) \div 100
        precise_offer == base_offer + offset
    IN  precise_offer

_calculate_offer(listing_price, round_num, offset) ==
    LET percent == PercentFor(round_num)
        base_offer == (listing_price * percent) \div 100
        precise_offer == base_offer + offset
    IN  Max2(precise_offer, 1)

SentRounds(messages) ==
    LET IsLowballer(m) == m.role = "lowballer"
    IN  Len(SelectSeq(messages, IsLowballer))

SellerMessages(messages) ==
    LET IsSeller(m) == m.role = "seller"
    IN  SelectSeq(messages, IsSeller)

\* variant: only the latest stored message is compared
InHistory_lastOnly(existing_history, scraped) ==
    /\ existing_history # <<>>
    /\ existing_history[Len(existing_history)].role = scraped.role
    /\ existing_history[Len(existing_history)].content = scraped.content

\* variant: only the content is compared
InHistory_contentOnly(existing_history, scraped) ==
    \E i \in 1..Len(existing_history) :
        existing_history[i].content = scraped.content

InHistory(existing_history, scraped) ==
    \E i \in 1..Len(existing_history) :
        /\ existing_history[i].role = scraped.role
        /\ existing_history[i].content = scraped.content

SyncedEntry(scraped) ==
    [role |-> scraped.role, content |-> scraped.content, synced |-> TRUE]

RECURSIVE MergeScraped(_, _, _)
MergeScraped(existing_history, scraped_messages, new_messages) ==
    IF scraped_messages = <<>>
    THEN [messages |-> existing_history, new |-> new_messages]
    ELSE LET scraped == Head(scraped_messages)
             msg_entry == SyncedEntry(scraped)
         IN  IF InHistory(existing_history, scraped)
             THEN MergeScraped(existing_history, Tail(scraped_messages),
                               new_messages)
             ELSE MergeScraped(Append(existing_history, msg_entry),
                               Tail(scraped_messages),
                               IF scraped.role = "seller"
                               THEN Append(new_messages, msg_entry)
                               ELSE new_messages)

NewRecord(listing_data) ==
    [listing |-> listing_data,
     messages |-> <<>>,
     current_round |-> 0,
     status |-> "active"]

Put(hist, sid, rec) ==
    [k \in (DOMAIN hist) \cup {sid} |-> IF k = sid THEN rec ELSE hist[k]]

EmptyStore == [k \in {} |-> NewRecord(ListingA)]

\* variant: a fresh record is stored on every call
EnsureRecord_alwaysNew(hist, seller_id, listing_data) ==
    Put(hist, seller_id, NewRecord(listing_data))

(* The record of a seller is created only when the store has none *)
EnsureRecord(hist, seller_id, listing_data) ==
    IF seller_id \in DOMAIN hist
    THEN hist
    ELSE Put(hist, seller_id, NewRecord(listing_data))

----------------------------------------------------------------------------
(* _send_message: False without a page; otherwise the message reaches the  *)
(* thread exactly when one of the locator strategies works (send_ok).      *)

_send_message(th, page, message, send_ok) ==
    IF page = None
    THEN [thread |-> th, sent |-> FALSE]
    ELSE IF send_ok
         THEN [thread |-> Append(th, [role |-> "lowballer", content |-> message]),
               sent |-> TRUE]
         ELSE [thread |-> th, sent |-> FALSE]

(* What page.evaluate returns for the scrape script: the thread shown, or  *)
(* nothing when the page does not show a chat container.  Without a page   *)
(* nothing is evaluated.                                                   *)
ScrapeOutcomes(th, page) == IF page = None THEN {<<>>} ELSE {th, <<>>}

(* Whether the chat input can be used; without a page nothing is tried.    *)
SendOutcomes(page) == IF page = None THEN {FALSE} ELSE BOOLEAN

(* random.choice is reached only for a price above the threshold.          *)
JitterOutcomes(listing_data) ==
    IF listing_data.price > AccuratePriceThreshold THEN JitterOffsets ELSE {0}

----------------------------------------------------------------------------
(* sync_conversation: result of the call on store hist with file dk *)

sync_conversation(hist, dk, listing_data, page, scraped_messages) ==
    IF page = None
    THEN [hist |-> hist, disk |-> dk, new |-> <<>>]
    ELSE LET seller_id == _get_seller_id(listing_data)
             h1 == EnsureRecord(hist, seller_id, listing_data)
         IN  IF scraped_messages = <<>>
             THEN [hist |-> h1, disk |-> dk, new |-> <<>>]
             ELSE LET m == MergeScraped(h1[seller_id].messages,
                                        scraped_messages, <<>>)
                      rec == [h1[seller_id] EXCEPT
                                !.messages = m.messages,
                                !.current_round = SentRounds(m.messages)]
                      h2 == Put(h1, seller_id, rec)
                  IN  [hist |-> h2, disk |-> h2, new |-> m.new]

(* The buyer message negotiate logs, and the record after logging it *)
OfferEntry(message, offer_price, current_round, sent) ==
    [role |-> "lowballer",
     content |-> message,
     offer_price |-> offer_price,
     round |-> current_round,
     sent |-> sent]

\* variant: a message that was not delivered is not logged
LogOffer_onlyIfSent(chat, entry, current_round) ==
    IF entry.sent
    THEN [chat EXCEPT !.messages = Append(@, entry),
                      !.current_round = current_round]
    ELSE chat

\* variant: the message is logged but the counter is not stored
LogOffer_keepRound(chat, entry, current_round) ==
    [chat EXCEPT !.messages = Append(@, entry)]

LogOffer(chat, entry, current_round) ==
    [chat EXCEPT !.messages = Append(@, entry),
                 !.current_round = current_round]

\* variant: the acceptance is counted as a round
MarkAccepted_countsRound(chat) ==
    [chat EXCEPT !.status = "accepted", !.current_round = @ + 1]

(* The record once negotiate has seen the seller accept *)
MarkAccepted(chat) == [chat EXCEPT !.status = "accepted"]

\* variant: a rejection ends the call as well
EndsNegotiation_alsoReject(analysis) == analysis \in {"ACCEPT", "REJECT"}

(* The classification on which negotiate returns; on REJECT it only prints *)
EndsNegotiation(analysis) == analysis = "ACCEPT"

\* variant: the placeholder price itself counts as accurate
HasAccuratePrice_atThreshold(listing_price) ==
    listing_price >= AccuratePriceThreshold

(* has_accurate_price: the price is above the placeholder *)
HasAccuratePrice(listing_price) == listing_price > AccuratePriceThreshold

(* The call negotiate makes for its round: capped at the final tier *)
NegotiationRound(current_round) == Min2(current_round, FinalTier)

CalcRecord(listing_price, current_round, round_num, offset) ==
    [price |-> listing_price,
     current_round |-> current_round,
     round_num |-> round_num,
     offer |-> _calculate_offer(listing_price, round_num, offset)]

NoCalc == [price |-> 0, current_round |-> 0, round_num |-> 0, offer |-> 0]

(* negotiate: result of the call; inputs are the scrape, the classifier's  *)
(* answer, the jitter drawn, and whether the chat input could be used.     *)
negotiate(hist, dk, th, cl, listing_data, page, scraped_messages, analysis, offset, send_ok) ==
    LET seller_id == _get_seller_id(listing_data)
        listing_price == listing_data.price
        s == sync_conversation(hist, dk, listing_data, page, scraped_messages)
    IN  IF seller_id \notin DOMAIN s.hist
        THEN [hist |-> s.hist, disk |-> s.disk, thread |-> th, calc |-> cl,
              ret |-> "KeyError", round_read |-> -1, sent |-> <<>>]
        ELSE
        LET chat == s.hist[seller_id]
            current_round == chat.current_round + 1
            seller_messages == SellerMessages(chat.messages)
        IN  IF seller_messages # <<>> /\ EndsNegotiation(analysis)
            THEN LET h2 == Put(s.hist, seller_id, MarkAccepted(chat))
                     snd == _send_message(th, page, ConfirmText, send_ok)
                 IN  [hist |-> h2, disk |-> h2, thread |-> snd.thread,
                      calc |-> cl, ret |-> "DEAL ACCEPTED",
                      round_read |-> chat.current_round,
                      sent |-> IF snd.sent THEN <<ConfirmText>> ELSE <<>>]
            ELSE LET has_accurate_price == HasAccuratePrice(listing_price)
                     effective_round == NegotiationRound(current_round)
                     made == CalcRecord(listing_price, current_round,
                                        effective_round, offset)
                     offer == made.offer
                     offer_price == IF has_accurate_price
                                    THEN Amount(offer) ELSE Contextual
                     snd == _send_message(th, page, OfferText, send_ok)
                     entry == OfferEntry(OfferText, offer_price,
                                         current_round, snd.sent)
                     h2 == Put(s.hist, seller_id,
                               LogOffer(chat, entry, current_round))
                 IN  [hist |-> h2, disk |-> h2, thread |-> snd.thread,
                      calc |-> IF has_accurate_price THEN made ELSE cl,
                      ret |-> IF snd.sent THEN "Sent message"
                              ELSE "Generated message",
                      round_read |-> chat.current_round,
                      sent |-> IF snd.sent THEN <<OfferText>> ELSE <<>>]

\* variant: the agreed price is stored without the status
AcceptCounter_priceOnly(chat, seller_price) ==
    [final_price |-> seller_price] @@ chat

(* The record once respond_to_counter has accepted the seller's price *)
AcceptCounter(chat, seller_price) ==
    [status |-> "accepted", final_price |-> seller_price] @@ chat

(* respond_to_counter: logs the seller's counter, accepts it when it is    *)
(* at most the final tier of the listing price, and otherwise negotiates.  *)
respond_to_counter(hist, dk, th, cl, listing_data, page, seller_price, scraped_messages, analysis, offset, send_ok) ==
    LET seller_id == _get_seller_id(listing_data)
        known == seller_id \in DOMAIN hist
        h1 == IF known
              THEN Put(hist, seller_id,
                       [hist[seller_id] EXCEPT !.messages =
                           Append(@, [role |-> "seller",
                                      content |-> CounterText(seller_price)])])
              ELSE hist
        listing_price == listing_data.price
    IN  IF seller_price * 100 <= listing_price * PercentFor(FinalTier)
        THEN LET snd == _send_message(th, page, DealText(seller_price), send_ok)
                 h2 == IF known
                       THEN Put(h1, seller_id,
                                AcceptCounter(h1[seller_id], seller_price))
                       ELSE h1
             IN  [hist |-> h2, disk |-> IF known THEN h2 ELSE dk,
                  thread |-> snd.thread, calc |-> cl,
                  ret |-> "Accepted seller's price", round_read |-> -1,
                  sent |-> IF snd.sent THEN <<DealText(seller_price)>>
                           ELSE <<>>]
        ELSE negotiate(h1, dk, th, cl, listing_data, page, scraped_messages,
                       analysis, offset, send_ok)

----------------------------------------------------------------------------
(* The dispatcher after construction: no listings, no turns, and the page  *)
(* of the launched browser on the marketplace home page.                   *)

HomeUrl == "https://www.carousell.sg"

NoDispatch ==
    [tool_calls |-> <<>>, results |-> <<>>, executed |-> <<>>, returned |-> <<>>,
     before |-> <<>>, count |-> 0, messages |-> <<>>]

(* BrowserLoader after __init__, in a program that has not called it yet. *)
(* The loader is followed only in the lifecycle specification.            *)
(* No dismiss_popups call is followed *)
NoPopup ==
    [page |-> None, max_attempts |-> 0, rounds |-> <<>>, done |-> FALSE,
     returned |-> FALSE, raised |-> FALSE, detections |-> 0]

NewLoader(flow) ==
    [flow |-> flow,
     main |-> "start",
     launched |-> FALSE,
     has_page |-> FALSE,
     page_closed |-> FALSE,
     streaming |-> FALSE,
     stream_task |-> "none",
     stream_at |-> "none",
     is_home |-> FALSE,
     pending_chat_action |-> FALSE,
     popup_task |-> "none",
     popup_at |-> "none",
     returned |-> "nothing yet",
     step |-> "none",
     effects |-> {}]

ControllerInit ==
    /\ current_listings = <<>>
    /\ conversation_history = <<>>
    /\ page_url = HomeUrl
    /\ dispatch = NoDispatch
    /\ loader = NewLoader("main")
    /\ popup = NoPopup

(* No completion has been asked for yet *)
NoLLM == [op |-> "none"]

----------------------------------------------------------------------------
(* State after construction: chat_history is what _load_chat_history reads *)
(* from chat_history.json, the empty store when there is no file.          *)

PriorOffer(listing_data, i) == OfferEntry(OfferText, Contextual, i, TRUE)

LoadedRecord(listing_data, n, cr) ==
    [listing |-> listing_data,
     messages |-> [i \in 1..n |-> PriorOffer(listing_data, i)],
     current_round |-> cr,
     status |-> "active"]

(* The thread the marketplace shows for messages that were delivered *)
RECURSIVE ThreadOf(_)
ThreadOf(messages) ==
    IF messages = <<>> THEN <<>>
    ELSE LET m == Head(messages)
         IN  <<[role |-> m.role, content |-> m.content]>> \o ThreadOf(Tail(messages))

NoCall ==
    [op |-> "none", sid |-> <<>>, page |-> None, scraped |-> <<>>,
     ret |-> "none", new |-> <<>>, round_read |-> -1, sent |-> <<>>,
     repeat |-> FALSE]

(* Stores a file may hold for the placeholder-priced listing: a record at  *)
(* or just below the round budget, with a counter that matches its         *)
(* transcript or not (the file is read back without any check).            *)
Init ==
    /\ LET LoadedRounds == {max_negotiation_rounds - 1, max_negotiation_rounds}
       IN  chat_history \in
             {EmptyStore} \cup
             { Put(EmptyStore, _get_seller_id(ListingD),
                   LoadedRecord(ListingD, n, cr)) :
                 n \in LoadedRounds, cr \in LoadedRounds }
    /\ disk = chat_history
    /\ thread = IF _get_seller_id(ListingD) \in DOMAIN chat_history
                THEN ThreadOf(chat_history[_get_seller_id(ListingD)].messages)
                ELSE <<>>
    /\ calc = NoCalc
    /\ listing \in IF chat_history = EmptyStore THEN Listings ELSE {ListingD}
    /\ call = NoCall
    /\ ops = 0
    /\ llm = NoLLM
    /\ ControllerInit

InitFresh ==
    /\ chat_history = EmptyStore
    /\ disk = chat_history
    /\ thread = <<>>
    /\ calc = NoCalc
    /\ listing \in Listings
    /\ call = NoCall
    /\ ops = 0
    /\ llm = NoLLM
    /\ ControllerInit

----------------------------------------------------------------------------
(* Actions *)

SyncAction ==
    /\ ops < MaxOps
    /\ \E listing_data \in {listing}, page \in Pages :
       \E scraped_messages \in ScrapeOutcomes(thread, page) :
       \E r \in {sync_conversation(chat_history, disk, listing_data, page,
                                   scraped_messages)} :
            /\ chat_history' = r.hist
            /\ disk' = r.disk
            /\ call' = [op |-> "sync", sid |-> _get_seller_id(listing_data),
                        page |-> page, scraped |-> scraped_messages,
                        ret |-> "new_messages", new |-> r.new,
                        round_read |-> -1, sent |-> <<>>,
                        repeat |-> /\ call.op = "sync"
                                   /\ call.sid = _get_seller_id(listing_data)
                                   /\ call.page = page
                                   /\ call.scraped = scraped_messages]
    /\ ops' = ops + 1
    /\ UNCHANGED <<thread, calc, listing, llm, popup, controller_vars>>

NegotiateAction ==
    /\ ops < MaxOps
    /\ \E listing_data \in {listing}, page \in Pages :
       \E scraped_messages \in ScrapeOutcomes(thread, page),
          analysis \in Analyses, offset \in JitterOutcomes(listing_data),
          send_ok \in SendOutcomes(page) :
       \E r \in {negotiate(chat_history, disk, thread, calc, listing_data,
                           page, scraped_messages, analysis, offset, send_ok)} :
            /\ chat_history' = r.hist
            /\ disk' = r.disk
            /\ thread' = r.thread
            /\ calc' = r.calc
            /\ call' = [op |-> "negotiate", sid |-> _get_seller_id(listing_data),
                        page |-> None, scraped |-> <<>>,
                        ret |-> r.ret, new |-> <<>>,
                        round_read |-> r.round_read, sent |-> r.sent,
                        repeat |-> FALSE]
    /\ ops' = ops + 1
    /\ UNCHANGED <<listing, llm, popup, controller_vars>>

RespondAction ==
    /\ ops < MaxOps
    /\ \E listing_data \in {listing}, page \in Pages,
          seller_price \in {100, 900} :
       \E scraped_messages \in ScrapeOutcomes(thread, page),
          analysis \in Analyses, offset \in JitterOutcomes(listing_data),
          send_ok \in SendOutcomes(page) :
       \E r \in {respond_to_counter(chat_history, disk, thread, calc,
                                    listing_data, page, seller_price,
                                    scraped_messages, analysis, offset, send_ok)} :
            /\ chat_history' = r.hist
            /\ disk' = r.disk
            /\ thread' = r.thread
            /\ calc' = r.calc
            /\ call' = [op |-> "respond", sid |-> _get_seller_id(listing_data),
                        page |-> None, scraped |-> <<>>,
                        ret |-> r.ret, new |-> <<>>,
                        round_read |-> r.round_read, sent |-> r.sent,
                        repeat |-> FALSE]
    /\ ops' = ops + 1
    /\ UNCHANGED <<listing, llm, popup, controller_vars>>

(* The seller writes in the chat: outside the engine's control *)
SellerPosts ==
    /\ Len(SellerMessages(thread)) < MaxThread
    /\ \E text \in {"ok deal, come collect"} :
        thread' = Append(thread, [role |-> "seller", content |-> text])
    /\ UNCHANGED <<chat_history, disk, calc, listing, call, ops, llm, popup,
                   controller_vars>>

Next == SyncAction \/ NegotiateAction \/ RespondAction \/ SellerPosts

Spec == Init /\ [][Next]_vars

SpecFresh == InitFresh /\ [][Next]_vars

----------------------------------------------------------------------------
(* The synchronization step on its own: the chat thread holds any messages *)
(* of the two parties (the buyer may also have typed in the chat by hand), *)
(* the store is empty or holds a record with one offer, and                *)
(* sync_conversation is called on what the page shows.                     *)

InitSync ==
    /\ chat_history \in
          {EmptyStore,
           Put(EmptyStore, _get_seller_id(ListingD), LoadedRecord(ListingD, 1, 1))}
    /\ disk = chat_history
    /\ thread \in UNION { [1..n ->
                              { [role |-> "lowballer", content |-> OfferText],
                                [role |-> "seller",
                                 content |-> "ok deal, come collect"],
                                [role |-> "lowballer",
                                 content |-> "ok deal, come collect"] }] :
                           n \in 0..MaxScrape }
    /\ calc = NoCalc
    /\ listing = ListingD
    /\ call = NoCall
    /\ ops = 0
    /\ llm = NoLLM
    /\ ControllerInit

SpecSync == InitSync /\ [][SyncAction]_vars

----------------------------------------------------------------------------
(* The offer calculation on its own: a listing of any price up to MaxPrice, *)
(* and _calculate_offer called for one round after the other, either       *)
(* directly with the round number or the way negotiate calls it.           *)

PricedListing(p) == [ListingA EXCEPT !.price = p]

InitOffer ==
    /\ chat_history = EmptyStore
    /\ disk = chat_history
    /\ thread = <<>>
    /\ calc = NoCalc
    /\ listing \in {PricedListing(p) : p \in 0..MaxPrice}
    /\ call = NoCall
    /\ ops = 0
    /\ llm = NoLLM
    /\ ControllerInit

CalculateDirect ==
    /\ calc.current_round < MaxCalcRound
    /\ \E offset \in JitterOffsets :
        calc' = CalcRecord(listing.price, calc.current_round + 1,
                           calc.current_round + 1, offset)
    /\ UNCHANGED <<chat_history, disk, thread, listing, call, ops, llm, popup,
                   controller_vars>>

CalculateInNegotiation ==
    /\ calc.current_round < MaxCalcRound
    /\ \E offset \in JitterOffsets :
        calc' = CalcRecord(listing.price, calc.current_round + 1,
                           NegotiationRound(calc.current_round + 1), offset)
    /\ UNCHANGED <<chat_history, disk, thread, listing, call, ops, llm, popup,
                   controller_vars>>

NextOffer == CalculateDirect \/ CalculateInNegotiation

SpecOffer == InitOffer /\ [][NextOffer]_vars

----------------------------------------------------------------------------
(* negotiate around the placeholder price: listings priced at nothing, at  *)
(* the placeholder, one above it and well above it.                        *)

InitThreshold ==
    /\ chat_history = EmptyStore
    /\ disk = chat_history
    /\ thread = <<>>
    /\ calc = NoCalc
    /\ listing \in {PricedListing(p) :
                       p \in {0, AccuratePriceThreshold,
                              AccuratePriceThreshold + 1, ListingA.price}}
    /\ call = NoCall
    /\ ops = 0
    /\ llm = NoLLM
    /\ ControllerInit

NextNegotiate == NegotiateAction \/ SellerPosts

SpecThreshold == InitThreshold /\ [][NextNegotiate]_vars

(* negotiate alone, on the two listings, with the seller writing: the     *)
(* calls whose outcome can depend on the classification                    *)
SpecClassified == InitFresh /\ [][NextNegotiate]_vars

----------------------------------------------------------------------------
(* The completion provider as the engine sees it.  A text is a sequence of *)
(* tokens: words, the blank and the two quote characters.  LLMClient       *)
(* returns a result with content and, after a failure it caught, an error  *)
(* text and the content "Error: <text>"; a client may also raise.          *)

Blank == " "
DQuote == "\""
Whitespace == {Blank}

RECURSIVE LStrip(_, _)
LStrip(text, chars) ==
    IF text # <<>> /\ Head(text) \in chars
    THEN LStrip(Tail(text), chars)
    ELSE text

RECURSIVE RStrip(_, _)
RStrip(text, chars) ==
    IF text # <<>> /\ text[Len(text)] \in chars
    THEN RStrip(SubSeq(text, 1, Len(text) - 1), chars)
    ELSE text

Strip(text, chars) == RStrip(LStrip(text, chars), chars)

Upper(text) ==
    LET UpperToken(token) ==
            CASE token = "accept" -> "ACCEPT"
              [] token = "Acceptable" -> "ACCEPTABLE"
              [] token = "reject" -> "REJECT"
              [] token = "rejected" -> "REJECTED"
              [] token = "counter" -> "COUNTER"
              [] token = "Error:" -> "ERROR:"
              [] token = "Not" -> "NOT"
              [] token = "timeout" -> "TIMEOUT"
              [] token = "offer" -> "OFFER"
              [] token = "or" -> "OR"
              [] OTHER -> token
    IN  [i \in 1..Len(text) |-> UpperToken(text[i])]

(* keyword in text, for an upper-case text: the keyword is a substring of  *)
(* one of its words                                                        *)
KeywordIn(keyword, text) ==
    \E i \in 1..Len(text) :
        \/ keyword = "ACCEPT" /\ text[i] \in {"ACCEPT", "ACCEPTABLE"}
        \/ keyword = "REJECT" /\ text[i] \in {"REJECT", "REJECTED"}

Raised == [raised |-> TRUE, content |-> <<>>, has_error |-> FALSE, error |-> <<>>]

Completed(content) ==
    [raised |-> FALSE, content |-> content, has_error |-> FALSE, error |-> <<>>]

(* LLMClient.complete after an exception e: content "Error: e", error str(e) *)
ErrorResult(e) ==
    [raised |-> FALSE, content |-> <<"Error:", Blank>> \o e,
     has_error |-> TRUE, error |-> e]

ProviderOutcomes ==
    LET Contents ==
            { <<>>,
              <<Blank>>,
              <<"ACCEPT">>,
              <<"reject">>,
              <<"counter">>,
              <<"accept", Blank, "or", Blank, "reject">>,
              <<DQuote, "offer", DQuote>>,
              <<DQuote, DQuote>> }
        ErrorTexts ==
            { <<>>,
              <<"timeout">>,
              <<"406", Blank, "Not", Blank, "Acceptable">>,
              <<"connection", Blank, "rejected">> }
    IN  {Raised} \cup {Completed(c) : c \in Contents}
                 \cup {ErrorResult(e) : e \in ErrorTexts}

_analyze_seller_response(response) ==
    IF response.raised
    THEN "COUNTER"
    ELSE LET result == Upper(Strip(response.content, Whitespace))
         IN  IF KeywordIn("ACCEPT", result) THEN "ACCEPT"
             ELSE IF KeywordIn("REJECT", result) THEN "REJECT"
             ELSE "COUNTER"

(* The template pools of _get_fallback_message, each template by its       *)
(* opening words                                                           *)
LastPool == 5

fallbacks ==
    (1 :> << <<"Hi! I know this is below asking">>,
             <<"Hey! Love the">>,
             <<"Hi there!">> >>) @@
    (2 :> << <<"Firm? I understand.">>,
             <<"I hear you.">>,
             <<"Got it.">> >>) @@
    (3 :> << <<"It seems like you want this sold quickly">>,
             <<"Sounds like you've had lowballers before">>,
             <<"is really my max lah">> >>) @@
    (4 :> << <<"You probably have better offers coming in">>,
             <<"I know">>,
             <<"You're probably thinking this is too low">> >>) @@
    (5 :> << <<"I totally understand">>,
             <<"is really my final offer">>,
             <<"Can only do">> >>)

FallbackOptions == 1..3

_get_fallback_message(round_num, option) ==
    LET options == IF round_num \in DOMAIN fallbacks
                   THEN fallbacks[round_num]
                   ELSE fallbacks[LastPool]
    IN  options[option]

_generate_message(response, round_num, option) ==
    IF response.raised
    THEN _get_fallback_message(round_num, option)
    ELSE LET message == Strip(response.content, Whitespace)
             \* response.get("error") is true for a non-empty error text
             error == response.has_error /\ response.error # <<>>
         IN  IF message = <<>> \/ error
             THEN _get_fallback_message(round_num, option)
             ELSE Strip(message, {DQuote, "'"})

(* Whether negotiate consults the classifier: the record has a seller      *)
(* message once the synchronization step is done.                          *)
ConsultsClassifier(hist, dk, listing_data, page, scraped_messages) ==
    LET seller_id == _get_seller_id(listing_data)
        s == sync_conversation(hist, dk, listing_data, page, scraped_messages)
    IN  /\ seller_id \in DOMAIN s.hist
        /\ SellerMessages(s.hist[seller_id].messages) # <<>>

IsAccepted(hist, seller_id) ==
    seller_id \in DOMAIN hist /\ hist[seller_id].status = "accepted"

InitProvider ==
    /\ chat_history = EmptyStore
    /\ disk = chat_history
    /\ thread = <<>>
    /\ calc = NoCalc
    /\ listing = ListingD
    /\ call = NoCall
    /\ ops = 0
    /\ llm = NoLLM
    /\ ControllerInit

(* negotiate, with the classification computed from what the provider did *)
NegotiateWithProvider ==
    /\ ops < MaxOps
    /\ \E listing_data \in {listing}, page \in Pages :
       \E scraped_messages \in ScrapeOutcomes(thread, page),
          response \in ProviderOutcomes, offset \in JitterOutcomes(listing_data),
          send_ok \in SendOutcomes(page) :
       \E analysis \in {_analyze_seller_response(response)} :
       \E r \in {negotiate(chat_history, disk, thread, calc, listing_data,
                           page, scraped_messages, analysis, offset, send_ok)} :
            /\ chat_history' = r.hist
            /\ disk' = r.disk
            /\ thread' = r.thread
            /\ calc' = r.calc
            /\ call' = [op |-> "negotiate", sid |-> _get_seller_id(listing_data),
                        page |-> None, scraped |-> <<>>,
                        ret |-> r.ret, new |-> <<>>,
                        round_read |-> r.round_read, sent |-> r.sent,
                        repeat |-> FALSE]
            /\ llm' = IF ConsultsClassifier(chat_history, disk, listing_data,
                                            page, scraped_messages)
                      THEN [op |-> "analyze", response |-> response,
                            analysis |-> analysis,
                            marked |-> /\ IsAccepted(r.hist, _get_seller_id(listing_data))
                                       /\ ~IsAccepted(chat_history, _get_seller_id(listing_data))]
                      ELSE llm
    /\ ops' = ops + 1
    /\ UNCHANGED <<listing, controller_vars, popup>>

(* _generate_message for a round, on what the provider did *)
GenerateMessage ==
    /\ \E response \in ProviderOutcomes, round_num \in 1..MaxCalcRound,
          option \in FallbackOptions :
        llm' = [op |-> "generate", response |-> response,
                round_num |-> round_num,
                message |-> _generate_message(response, round_num, option)]
    /\ UNCHANGED <<engine_vars, controller_vars, popup>>

NextProvider == NegotiateWithProvider \/ SellerPosts

SpecProvider == InitProvider /\ [][NextProvider]_vars

SpecGenerate == InitProvider /\ [][GenerateMessage]_vars

----------------------------------------------------------------------------
(* The dispatcher (src/controller.py).  A result string is kept as a tuple *)
(* of its fixed wording and the values formatted into it.  dismiss_popups  *)
(* changes nothing the dispatcher keeps and is left out of the handlers.   *)

MockListing(index, head, rest, price, seller_name, listing_url) ==
    [index |-> index, title |-> <<head, rest>>, price |-> price,
     seller_name |-> seller_name, listing_url |-> listing_url,
     description |-> ""]

get_mock_listings ==
    << MockListing(0, "iPhone 14 Pro 256GB ", "- Like New", 1200, "techseller88",
                   "https://www.carousell.sg/p/iphone-14-pro-256gb-123456"),
       MockListing(1, "iPhone 13 128GB Good", " Condition", 650, "mobilehub",
                   "https://www.carousell.sg/p/iphone-13-128gb-654321"),
       MockListing(2, "iPhone 12 Mini 64GB", "", 400, "dealzking",
                   "https://www.carousell.sg/p/iphone-12-mini-789012"),
       MockListing(3, "iPhone 14 128GB Purp", "le", 580, "phonemaster",
                   "https://www.carousell.sg/p/iphone-14-128gb-111222"),
       MockListing(4, "iPhone SE 2022 64GB", "", 350, "budgetphones",
                   "https://www.carousell.sg/p/iphone-se-2022-333444") >>

(* parse_listings: the listings of the page, none when there is no HTML *)
parse_listings(html_ok) == IF html_ok THEN get_mock_listings ELSE <<>>

filter_listings_by_price(listings, max_price) ==
    LET Keep(l) == 0 < l.price /\ l.price <= max_price
    IN  SelectSeq(listings, Keep)

SearchUrl == "https://www.carousell.sg/search/iphone"

(* max_price as the provider passed it: left out, a number, or a string *)
NoMaxPrice == [kind |-> "none", value |-> 0]
NumberPrice(n) == [kind |-> "number", value |-> n]
StringPrice(n) == [kind |-> "string", value |-> n]

(* Python truth of the argument: None, 0 and the empty string are false *)
IsTruthy(max_price) ==
    \/ max_price.kind = "number" /\ max_price.value # 0
    \/ max_price.kind = "string"

(* What the page and the marketplace do during one handler *)
Env(navigate_ok, html_ok, chat_found, send_ok) ==
    [navigate_ok |-> navigate_ok, html_ok |-> html_ok,
     chat_found |-> chat_found, send_ok |-> send_ok]

Smooth == Env(TRUE, TRUE, TRUE, TRUE)

ToolCall(name, bad_arguments, listing_index, max_price, env) ==
    [name |-> name, bad_arguments |-> bad_arguments,
     listing_index |-> listing_index, max_price |-> max_price, env |-> env]

tool_handlers ==
    {"search_carousell", "extract_listings", "open_listing", "open_chat",
     "delegate_lowball", "check_chat", "take_screenshot", "send_voice_message"}

IndexedTools == {"open_listing", "open_chat", "delegate_lowball"}

(* The tool calls a provider response may hold for the batches drawn here: *)
(* searches with and without a price bound, a call with its required      *)
(* argument missing, indexed calls inside and outside the list, and a name *)
(* that is no tool.                                                        *)
ToolCalls ==
    { ToolCall("search_carousell", FALSE, 0, m, Smooth) :
        m \in {NoMaxPrice, NumberPrice(600), NumberPrice(0), StringPrice(600)} }
    \cup { ToolCall("search_carousell", TRUE, 0, NoMaxPrice, Smooth),
           ToolCall("search_carousell", FALSE, 0, NoMaxPrice,
                    Env(FALSE, TRUE, TRUE, TRUE)),
           ToolCall("search_carousell", FALSE, 0, NumberPrice(600),
                    Env(TRUE, FALSE, TRUE, TRUE)),
           ToolCall("extract_listings", FALSE, 0, NoMaxPrice, Smooth),
           ToolCall("fly_to_moon", FALSE, 0, NoMaxPrice, Smooth) }
    \cup { ToolCall(name, FALSE, i, NoMaxPrice, Smooth) :
             name \in IndexedTools, i \in {-1, 0, Len(get_mock_listings)} }
    \cup { ToolCall("open_listing", FALSE, 0, NoMaxPrice,
                    Env(FALSE, TRUE, TRUE, TRUE)),
           ToolCall("open_chat", FALSE, 0, NoMaxPrice,
                    Env(TRUE, TRUE, FALSE, TRUE)),
           ToolCall("delegate_lowball", FALSE, 0, NoMaxPrice,
                    Env(TRUE, TRUE, FALSE, TRUE)),
           ToolCall("delegate_lowball", FALSE, 0, NoMaxPrice,
                    Env(TRUE, TRUE, TRUE, FALSE)) }

(* What a handler leaves behind: the dispatcher and engine state, and the  *)
(* string it returned or the fact that it raised.                          *)
Returned(w, result) == [w |-> w, raised |-> FALSE, result |-> result]
RaisedIn(w, error) == [w |-> w, raised |-> TRUE, result |-> <<"Error", error>>]

NoListings == <<"No listings available. Search first.">>
\* variant: the range is reported up to the length
InvalidIndex_upToLength(listings) ==
    <<"Invalid listing index. Valid range:", 0, Len(listings)>>

InvalidIndex(listings) ==
    <<"Invalid listing index. Valid range:", 0, Len(listings) - 1>>
BrowserNotReady == <<"Browser not ready">>

OutOfRange(listing_index, listings) ==
    listing_index < 0 \/ listing_index >= Len(listings)

_handle_search(w, max_price, env) ==
    IF w.page_url = None
    THEN Returned(w, <<"Browser not ready. Please ensure browser is launched.">>)
    ELSE IF ~env.navigate_ok
    THEN Returned(w, <<"Failed to navigate to search results for", "iphone">>)
    ELSE LET parsed == parse_listings(env.html_ok)
             w1 == [w EXCEPT !.page_url = SearchUrl, !.current_listings = parsed]
         IN  IF IsTruthy(max_price) /\ max_price.kind = "string" /\ parsed # <<>>
             THEN RaisedIn(w1, "TypeError")
             ELSE LET listings == IF IsTruthy(max_price)
                                  THEN filter_listings_by_price(parsed, max_price.value)
                                  ELSE parsed
                      w2 == [w1 EXCEPT !.current_listings = listings]
                  IN  IF listings # <<>>
                      THEN Returned(w2, <<"Found listings", Len(listings),
                                          IsTruthy(max_price)>>)
                      ELSE Returned(w2, <<"No listings found", 0,
                                          IsTruthy(max_price)>>)

_handle_extract(w, env) ==
    LET listings == IF w.current_listings = <<>> /\ w.page_url # None
                    THEN parse_listings(env.html_ok)
                    ELSE w.current_listings
        w1 == [w EXCEPT !.current_listings = listings]
    IN  IF listings = <<>>
        THEN Returned(w1, <<"No listings found. Try searching first.">>)
        ELSE Returned(w1, <<"Extracted listings", Len(listings)>>)

_handle_open_listing(w, listing_index, env) ==
    IF w.current_listings = <<>>
    THEN Returned(w, NoListings)
    ELSE IF OutOfRange(listing_index, w.current_listings)
    THEN Returned(w, InvalidIndex(w.current_listings))
    ELSE LET l == w.current_listings[listing_index + 1]
         IN  IF l.listing_url = ""
             THEN Returned(w, <<"No URL available for listing", listing_index>>)
             ELSE IF w.page_url # None /\ env.navigate_ok
             THEN Returned([w EXCEPT !.page_url = l.listing_url],
                           <<"Opened listing", l.title, l.price>>)
             ELSE Returned(w, <<"Failed to open listing", listing_index>>)

_handle_open_chat(w, listing_index, env) ==
    IF w.current_listings = <<>>
    THEN Returned(w, NoListings)
    ELSE IF OutOfRange(listing_index, w.current_listings)
    THEN Returned(w, InvalidIndex(w.current_listings))
    ELSE IF w.page_url = None
    THEN Returned(w, BrowserNotReady)
    ELSE LET l == w.current_listings[listing_index + 1]
             w1 == IF /\ l.listing_url # ""
                      /\ w.page_url # l.listing_url
                      /\ env.navigate_ok
                   THEN [w EXCEPT !.page_url = l.listing_url]
                   ELSE w
         IN  IF env.chat_found
             THEN Returned(w1, <<"Opened chat for", l.title>>)
             ELSE Returned(w1, <<"Could not find chat button for listing",
                                 listing_index>>)

\* variant: nothing is captured
screenshot_nothing(w, path) == w

(* BrowserLoader.screenshot: the file is written when there is a page *)
screenshot(w, path) ==
    IF w.page_url = None THEN w ELSE [w EXCEPT !.effects = @ \cup {path}]

_handle_delegate_lowball(w, listing_index, env) ==
    IF w.current_listings = <<>>
    THEN Returned(w, NoListings)
    ELSE IF OutOfRange(listing_index, w.current_listings)
    THEN Returned(w, InvalidIndex(w.current_listings))
    ELSE IF w.page_url = None
    THEN Returned(w, BrowserNotReady)
    ELSE LET l == w.current_listings[listing_index + 1]
         IN  IF l.listing_url # "" /\ ~env.navigate_ok
             THEN Returned(w, <<"Failed to navigate to listing URL", l.listing_url>>)
             ELSE
             LET detailed == IF l.listing_url # ""
                             THEN [l EXCEPT !.description = "extracted"]
                             ELSE l
                 w1 == [w EXCEPT
                          !.page_url = IF l.listing_url # ""
                                       THEN l.listing_url ELSE @,
                          !.current_listings[listing_index + 1] = detailed]
             IN  IF ~env.chat_found
                 THEN Returned(screenshot(w1, "screenshots/chat_open_failed.png"),
                               <<"Could not find chat button on listing page.">>)
                 ELSE \* the chat just opened shows the thread; no seller
                      \* message is classified other than as a counter
                      LET r == negotiate(w1.chat_history, w1.disk, w1.thread,
                                         w1.calc, detailed, "page", w1.thread,
                                         "COUNTER", 2, env.send_ok)
                          w2 == [w1 EXCEPT !.chat_history = r.hist,
                                           !.disk = r.disk,
                                           !.thread = r.thread,
                                           !.calc = r.calc]
                          \* "Sent offer" in result: the idle refresh
                          \* ends on the home page
                          w3 == IF r.ret \in {"Sent offer"}
                                THEN [w2 EXCEPT !.page_url = HomeUrl]
                                ELSE w2
                      IN  Returned(w3, <<r.ret>>)

(* _handle_check_chat.  The one thread of the model is the chat with the   *)
(* seller of the first listing; the inbox marks it unread when its latest  *)
(* message is the seller's and shows that message as its snippet.  The     *)
(* listing handed to the engine is built from the inbox entry: the seller  *)
(* name, the snippet as title, and the placeholder price.                  *)
_handle_check_chat(w, env) ==
    IF w.page_url = None \/ ~env.navigate_ok
    THEN Returned(w, <<"Failed to navigate to inbox.">>)
    ELSE LET home == [w EXCEPT !.page_url = HomeUrl]
             unread == /\ env.html_ok
                       /\ w.thread # <<>>
                       /\ w.thread[Len(w.thread)].role = "seller"
         IN  IF ~unread
             THEN Returned(home, <<"Inbox checked. No new messages. Back to idle.">>)
             ELSE IF ~env.chat_found
             THEN Returned(home, <<"Reply mode complete.", 1, 0>>)
             ELSE
             LET message_snippet == w.thread[Len(w.thread)].content
                 \* title[:20] of the snippet
                 head == IF message_snippet = "ok deal, come collect"
                         THEN "ok deal, come collec" ELSE message_snippet
                 dummy_listing ==
                     [seller_name |-> get_mock_listings[1].seller_name,
                      title |-> <<head, "">>,
                      price |-> 100]
                 s == sync_conversation(w.chat_history, w.disk, dummy_listing,
                                        "page", w.thread)
                 r == negotiate(s.hist, s.disk, w.thread, w.calc,
                                dummy_listing, "page", w.thread,
                                env.analysis, 0, env.send_ok)
             IN  Returned([home EXCEPT !.chat_history = r.hist,
                                       !.disk = r.disk,
                                       !.thread = r.thread,
                                       !.calc = r.calc],
                          <<"Reply mode complete.", 1, 1>>)

(* The call of the handler with the arguments unpacked: a missing required *)
(* argument raises before the handler runs.                                *)
CallHandler(w, tc) ==
    IF tc.bad_arguments
    THEN RaisedIn(w, "TypeError")
    ELSE CASE tc.name = "search_carousell" ->
                _handle_search(w, tc.max_price, tc.env)
           [] tc.name = "extract_listings" ->
                _handle_extract(w, tc.env)
           [] tc.name = "open_listing" ->
                _handle_open_listing(w, tc.listing_index, tc.env)
           [] tc.name = "open_chat" ->
                _handle_open_chat(w, tc.listing_index, tc.env)
           [] tc.name = "delegate_lowball" ->
                _handle_delegate_lowball(w, tc.listing_index, tc.env)
           [] tc.name = "check_chat" ->
                _handle_check_chat(w, tc.env)

Success(tool_name, result) == [ok |-> TRUE, tool |-> tool_name, text |-> result]
Failure(tool_name, result) == [ok |-> FALSE, tool |-> tool_name, text |-> result]

OutcomeLine(tc, h) ==
    IF h.raised THEN Failure(tc.name, h.result) ELSE Success(tc.name, h.result)

UnknownTool(tc) == Failure(tc.name, <<"Unknown tool">>)

\* variant: the loop ends at the first action that fails
RECURSIVE ExecuteFrom_stopAtFailure(_, _, _, _, _)
ExecuteFrom_stopAtFailure(w, tool_calls, i, results, executed) ==
    IF i > Len(tool_calls)
    THEN [w |-> w, results |-> results, executed |-> executed]
    ELSE LET tc == tool_calls[i]
         IN  IF tc.name \in tool_handlers
             THEN CHOOSE out \in
                    { IF h.raised
                      THEN [w |-> h.w,
                            results |-> Append(results, OutcomeLine(tc, h)),
                            executed |-> Append(executed, i)]
                      ELSE ExecuteFrom_stopAtFailure(h.w, tool_calls, i + 1,
                               Append(results, OutcomeLine(tc, h)),
                               Append(executed, i)) :
                      h \in {CallHandler(w, tc)} } : TRUE
             ELSE [w |-> w,
                   results |-> Append(results, UnknownTool(tc)),
                   executed |-> executed]

(* The loop of _execute_tool_calls from the i-th call on: results holds    *)
(* the outcome lines so far, executed the calls whose handler was invoked. *)
RECURSIVE ExecuteFrom(_, _, _, _, _)
ExecuteFrom(w, tool_calls, i, results, executed) ==
    IF i > Len(tool_calls)
    THEN [w |-> w, results |-> results, executed |-> executed]
    ELSE LET tc == tool_calls[i]
         IN  IF tc.name \in tool_handlers
             THEN CHOOSE out \in
                    { ExecuteFrom(h.w, tool_calls, i + 1,
                                  Append(results, OutcomeLine(tc, h)),
                                  Append(executed, i)) :
                      h \in {CallHandler(w, tc)} } : TRUE
             ELSE ExecuteFrom(w, tool_calls, i + 1,
                              Append(results, UnknownTool(tc)), executed)

_execute_tool_calls(w, tool_calls) == ExecuteFrom(w, tool_calls, 1, <<>>, <<>>)

UserTurn == [role |-> "user", content |-> <<"user_prompt">>]
\* variant: the result is appended as a user turn
AssistantTurn_asUser(content) == [role |-> "user", content |-> content]

AssistantTurn(content) == [role |-> "assistant", content |-> content]
FreeText == <<"I'm not sure how to help with that.">>

InitController ==
    /\ chat_history = EmptyStore
    /\ disk = chat_history
    /\ thread = <<>>
    /\ calc = NoCalc
    /\ listing = ListingA
    /\ call = NoCall
    /\ ops = 0
    /\ llm = NoLLM
    /\ current_listings = <<>>
    /\ conversation_history = <<>>
    /\ page_url \in {None, HomeUrl}
    /\ dispatch = NoDispatch
    /\ loader = NewLoader("main")
    /\ popup = NoPopup

(* _build_messages: the system message and the last turns of the history *)
_build_messages(history) ==
    <<[role |-> "system", content |-> <<"system_prompt">>]>>
    \o SubSeq(history, Max2(1, Len(history) - HistoryWindow + 1), Len(history))

(* run(user_prompt) when the provider answers with the batch tool_calls *)
RunTools(tool_calls) ==
    \E w \in {[current_listings |-> current_listings, page_url |-> page_url,
                chat_history |-> chat_history, disk |-> disk,
                thread |-> thread, calc |-> calc,
                effects |-> loader.effects]} :
    \E r \in {_execute_tool_calls(w, tool_calls)} :
        /\ current_listings' = r.w.current_listings
        /\ page_url' = r.w.page_url
        /\ chat_history' = r.w.chat_history
        /\ disk' = r.w.disk
        /\ thread' = r.w.thread
        /\ calc' = r.w.calc
        /\ loader' = [loader EXCEPT !.effects = r.w.effects]
        /\ conversation_history' =
              conversation_history \o <<UserTurn, AssistantTurn(r.results)>>
        /\ dispatch' = [tool_calls |-> tool_calls, results |-> r.results,
                        executed |-> r.executed, returned |-> r.results,
                        before |-> current_listings,
                        count |-> dispatch.count + Len(tool_calls),
                        messages |-> _build_messages(
                                        Append(conversation_history, UserTurn))]
        /\ UNCHANGED <<listing, call, ops, llm, popup>>

(* run(user_prompt) when the provider answers with text only *)
RunReply ==
    /\ conversation_history' =
          conversation_history \o <<UserTurn, AssistantTurn(FreeText)>>
    /\ dispatch' = [tool_calls |-> <<>>, results |-> <<>>, executed |-> <<>>,
                    returned |-> FreeText, before |-> current_listings,
                    count |-> dispatch.count + 1,
                    messages |-> _build_messages(
                                    Append(conversation_history, UserTurn))]
    /\ UNCHANGED <<engine_vars, llm, popup, current_listings, page_url, loader>>

RunWithToolCalls ==
    \E n \in 1..(MaxCalls - dispatch.count) :
    \E tool_calls \in [1..n -> ToolCalls] : RunTools(tool_calls)

RunWithReply == dispatch.count < MaxCalls /\ RunReply

NextController == RunWithToolCalls \/ RunWithReply

SpecController == InitController /\ [][NextController]_vars

----------------------------------------------------------------------------
(* The inbox session: each run() call is answered with one tool call, a    *)
(* search, a negotiation handed to the engine or an inbox check, and the   *)
(* seller writes in between.  The environment of an inbox check also holds *)
(* the classifier's answer.                                                *)

InboxCalls ==
    { ToolCall("search_carousell", FALSE, 0, NoMaxPrice, Smooth) }
    \cup { ToolCall("delegate_lowball", FALSE, 0, NoMaxPrice,
                    Env(TRUE, TRUE, chat_found, send_ok)) :
             chat_found \in BOOLEAN, send_ok \in BOOLEAN }
    \cup { ToolCall("check_chat", FALSE, 0, NoMaxPrice,
                    [analysis |-> analysis] @@
                    Env(navigate_ok, TRUE, chat_found, send_ok)) :
             analysis \in Analyses, navigate_ok \in BOOLEAN,
             chat_found \in BOOLEAN, send_ok \in BOOLEAN }

NextInbox ==
    \/ SellerPosts
    \/ /\ dispatch.count < MaxTurns
       /\ \E tc \in InboxCalls : RunTools(<<tc>>)

SpecInbox == InitController /\ [][NextInbox]_vars

----------------------------------------------------------------------------
(* A long session: one run() call after the other, the provider answering  *)
(* each with text, with a search or with a tool that does not exist.       *)

NextSession ==
    /\ Len(conversation_history) < 2 * MaxRuns
    /\ \/ RunReply
       \/ \E name \in {"search_carousell", "fly_to_moon"} :
             RunTools(<<ToolCall(name, FALSE, 0, NoMaxPrice, Smooth)>>)

SpecSession == InitController /\ [][NextSession]_vars

----------------------------------------------------------------------------
(* The browser loader (src/browser_loader.py), its live-capture task, the  *)
(* overlay monitor (src/controller.py) and the program around them: main   *)
(* (src/main.py), or test_controller, the one caller that starts the       *)
(* overlay monitor.  Tasks of one event loop switch at an await only, so a *)
(* step of a task runs from the await it was suspended at to its next      *)
(* await; stream_at and popup_at are the awaits the tasks are suspended    *)
(* at, main the place the program is at.  Timers are left open: a block    *)
(* guarded by elapsed time may or may not run in an iteration.             *)

PageOpen(l) == l.has_page /\ ~l.page_closed

(* _apply_stealth: adds the init script, calls start_streaming (a task is  *)
(* created unless one is still running), and returns the triple to        *)
(* launch, which does not use it                                           *)
_apply_stealth(l) ==
    IF l.stream_task = "running"
    THEN l
    ELSE [l EXCEPT !.streaming = TRUE,
                   !.stream_task = "running",
                   !.stream_at = "created"]

(* launch: the existing instances when launched; otherwise the browser is  *)
(* started and the function ends after setting _launched, without a return *)
(* statement                                                               *)
launch(l) ==
    IF l.launched
    THEN [l EXCEPT !.returned = "triple"]
    ELSE [_apply_stealth([l EXCEPT !.has_page = TRUE, !.page_closed = FALSE])
            EXCEPT !.launched = TRUE, !.returned = "None"]

(* close: page, context, browser and playwright are closed *)
close(l) == [l EXCEPT !.page_closed = TRUE, !.launched = FALSE]

(* A cancellation reaches the live capture at the await it is suspended    *)
(* at: inside the two blocks with a bare except it is caught and the loop  *)
(* goes on to its sleep; elsewhere it ends the task.                       *)
CancelStream(l) ==
    IF l.stream_task # "running"
    THEN l
    ELSE IF l.stream_at \in {"reload", "badge"}
    THEN [l EXCEPT !.stream_at = "sleep"]
    ELSE [l EXCEPT !.stream_task = "done", !.stream_at = "none"]

(* The overlay monitor breaks out of its loop on CancelledError *)
CancelMonitor(l) ==
    IF l.popup_task # "running"
    THEN l
    ELSE [l EXCEPT !.popup_task = "done", !.popup_at = "none"]

(* The head of the capture loop: the flag, then the page *)
LoopHead(l) ==
    IF ~l.streaming
    THEN [l EXCEPT !.stream_task = "done", !.stream_at = "none"]
    ELSE IF PageOpen(l)
    THEN [l EXCEPT !.stream_at = "capture"]
    ELSE [l EXCEPT !.stream_at = "sleep"]

Did(l, step) == [l EXCEPT !.step = step]

(* Where the program is between two turns: main() at the top of its loop,  *)
(* where it checks the flag; test_controller at its next prompt            *)
LoopTop(l) == IF l.flow = "main" THEN "top" ELSE "idle"

InitLifecycle ==
    /\ chat_history = EmptyStore
    /\ disk = chat_history
    /\ thread = <<>>
    /\ calc = NoCalc
    /\ listing = ListingA
    /\ call = NoCall
    /\ ops = 0
    /\ llm = NoLLM
    /\ current_listings = <<>>
    /\ conversation_history = <<>>
    /\ page_url = None
    /\ dispatch = NoDispatch
    /\ loader \in {NewLoader(flow) : flow \in {"main", "test_controller"}}
    /\ popup = NoPopup

LifecycleFrame ==
    UNCHANGED <<engine_vars, llm, popup, conversation_history, dispatch>>

(* launch(): by the program at its start, or again on a launched loader *)
Launch ==
    /\ loader.main \in {"start", "idle"}
    /\ loader' = Did([launch(loader) EXCEPT
                        !.main = IF loader.main = "start" THEN "launched" ELSE @],
                     "launch")
    /\ page_url' = IF loader.launched THEN page_url ELSE "about:blank"
    /\ UNCHANGED current_listings
    /\ LifecycleFrame

(* The program opens the marketplace home page *)
NavigateHome ==
    /\ loader.main = "launched"
    /\ loader' = Did([loader EXCEPT !.main = LoopTop(loader)], "navigate")
    /\ page_url' = HomeUrl
    /\ UNCHANGED current_listings
    /\ LifecycleFrame

(* test_controller starts the overlay monitor *)
StartPopupMonitoring ==
    /\ loader.flow = "test_controller"
    /\ loader.main = "idle"
    /\ loader.popup_task # "running"
    /\ loader' = Did([loader EXCEPT !.popup_task = "running",
                                    !.popup_at = "created"],
                     "start_popup_monitoring")
    /\ UNCHANGED <<page_url, current_listings>>
    /\ LifecycleFrame

\* variant: the turn is started with the flag left as it is
ProcessPendingChat_keepsFlag ==
    /\ loader.main = "top"
    /\ loader.pending_chat_action
    /\ loader' = Did([loader EXCEPT !.main = "checking"], "check_chat")
    /\ UNCHANGED <<page_url, current_listings>>
    /\ LifecycleFrame

(* The main loop, at the top of an iteration, sees pending_chat_action: it *)
(* clears the flag and starts the inbox turn                               *)
ProcessPendingChat ==
    /\ loader.main = "top"
    /\ loader.pending_chat_action
    /\ loader' = Did([loader EXCEPT !.pending_chat_action = FALSE,
                                    !.main = "checking"],
                     "check_chat")
    /\ UNCHANGED <<page_url, current_listings>>
    /\ LifecycleFrame

(* The inbox turn returns: check_chat ends on the home page *)
CheckChatDone ==
    /\ loader.main = "checking"
    /\ loader' = Did([loader EXCEPT !.main = "top"], "check_chat")
    /\ page_url' = HomeUrl
    /\ UNCHANGED current_listings
    /\ LifecycleFrame

(* The main loop, with the flag clear at the top of an iteration, waits    *)
(* for input                                                               *)
AwaitInput ==
    /\ loader.main = "top"
    /\ ~loader.pending_chat_action
    /\ loader' = Did([loader EXCEPT !.main = "idle"], "wait")
    /\ UNCHANGED <<page_url, current_listings>>
    /\ LifecycleFrame

(* No input within the timeout: back to the top of the loop *)
InputTimeout ==
    /\ loader.flow = "main"
    /\ loader.main = "idle"
    /\ loader' = Did([loader EXCEPT !.main = "top"], "timeout")
    /\ UNCHANGED <<page_url, current_listings>>
    /\ LifecycleFrame

(* _handle_search up to the await of page.goto inside navigate *)
BeginSearch ==
    /\ loader.main = "idle"
    /\ loader' = Did([loader EXCEPT !.main = "navigating"], "search")
    /\ UNCHANGED <<page_url, current_listings>>
    /\ LifecycleFrame

(* page.goto is done: navigate waits for overlays *)
GotoDone ==
    /\ loader.main = "navigating"
    /\ loader' = Did([loader EXCEPT !.main = "settling"], "search")
    /\ page_url' = SearchUrl
    /\ UNCHANGED current_listings
    /\ LifecycleFrame

(* navigate goes back when the page is not on the search results, and      *)
(* returns; _handle_search waits for dismiss_popups                        *)
NavigateDone ==
    /\ loader.main = "settling"
    /\ loader' = Did([loader EXCEPT !.main = "extracting"], "search")
    /\ page_url' = SearchUrl
    /\ UNCHANGED current_listings
    /\ LifecycleFrame

(* extract_dom and parse_listings on what the page shows *)
ExtractDone ==
    /\ loader.main = "extracting"
    /\ loader' = Did([loader EXCEPT !.main = LoopTop(loader)], "search")
    /\ current_listings' = parse_listings(page_url = SearchUrl)
    /\ UNCHANGED page_url
    /\ LifecycleFrame

(* 'quit' in main; the end of the prompts in test_controller *)
LeaveLoop ==
    /\ loader.main = "idle"
    /\ loader' = Did([loader EXCEPT !.main = "exited"], "quit")
    /\ UNCHANGED <<page_url, current_listings>>
    /\ LifecycleFrame

(* test_controller stops the overlay monitor before it closes the browser *)
StopPopupMonitoring ==
    /\ loader.flow = "test_controller"
    /\ loader.main = "exited"
    /\ loader' = Did([CancelMonitor(loader) EXCEPT !.main = "monitor_stopped"],
                     "stop_popup_monitoring")
    /\ UNCHANGED <<page_url, current_listings>>
    /\ LifecycleFrame

Close ==
    /\ \/ loader.flow = "main" /\ loader.main = "exited"
       \/ loader.main = "monitor_stopped"
    /\ loader' = Did([close(loader) EXCEPT !.main = "closed"], "close")
    /\ UNCHANGED <<page_url, current_listings>>
    /\ LifecycleFrame

(* asyncio.run, once the program's coroutine has returned, cancels the     *)
(* tasks that are left                                                     *)
LoopTeardown ==
    /\ loader.main = "closed"
    /\ loader' = Did([CancelMonitor(CancelStream(loader)) EXCEPT
                        !.main = "torn_down"],
                     "asyncio.run")
    /\ UNCHANGED <<page_url, current_listings>>
    /\ LifecycleFrame

(* The capture task runs for the first time *)
StreamStarts ==
    /\ loader.stream_task = "running"
    /\ loader.stream_at = "created"
    /\ loader' = Did(LoopHead(loader), "stream")
    /\ UNCHANGED <<page_url, current_listings>>
    /\ LifecycleFrame

(* After the screenshot: is_home is read, and the refresh block or the     *)
(* badge block is entered when its time has come                           *)
StreamCaptured ==
    /\ loader.stream_task = "running"
    /\ loader.stream_at = "capture"
    /\ \E next \in {"sleep"}
                   \cup (IF page_url = HomeUrl /\ ~loader.pending_chat_action
                         THEN {"reload"} ELSE {})
                   \cup (IF page_url = HomeUrl THEN {"badge"} ELSE {}) :
         loader' = Did([loader EXCEPT
                          !.stream_at = next,
                          !.is_home = page_url = HomeUrl,
                          !.effects = IF PageOpen(loader)
                                      THEN @ \cup {"screenshot"} ELSE @],
                       "stream")
    /\ UNCHANGED <<page_url, current_listings>>
    /\ LifecycleFrame

(* After page.reload and the overlay check of the refresh block *)
StreamReloaded ==
    /\ loader.stream_task = "running"
    /\ loader.stream_at = "reload"
    /\ \E next \in {"sleep"} \cup (IF loader.is_home THEN {"badge"} ELSE {}) :
         loader' = Did([loader EXCEPT
                          !.stream_at = next,
                          !.effects = IF PageOpen(loader)
                                      THEN @ \cup {"reload"} ELSE @],
                       "stream")
    /\ UNCHANGED <<page_url, current_listings>>
    /\ LifecycleFrame

(* After the badge query: with a visible badge the task sends the page to  *)
(* the inbox and raises pending_chat_action                                *)
StreamBadgeChecked ==
    /\ loader.stream_task = "running"
    /\ loader.stream_at = "badge"
    /\ \E visible \in BOOLEAN :
         IF visible /\ PageOpen(loader)
         THEN /\ loader' = Did([loader EXCEPT
                                  !.stream_at = "sleep",
                                  !.pending_chat_action = TRUE,
                                  !.effects = @ \cup {"goto"}],
                               "stream")
              /\ page_url' = "https://www.carousell.sg/inbox/"
         ELSE /\ loader' = Did([loader EXCEPT !.stream_at = "sleep"], "stream")
              /\ UNCHANGED page_url
    /\ UNCHANGED current_listings
    /\ LifecycleFrame

(* After the sleep that ends an iteration *)
StreamSlept ==
    /\ loader.stream_task = "running"
    /\ loader.stream_at = "sleep"
    /\ loader' = Did(LoopHead(loader), "stream")
    /\ UNCHANGED <<page_url, current_listings>>
    /\ LifecycleFrame

(* The overlay monitor: it resumes from its sleep into dismiss_popups, and *)
(* from dismiss_popups into its sleep                                      *)
MonitorStep ==
    /\ loader.popup_task = "running"
    /\ loader' = IF loader.popup_at = "dismiss"
                 THEN Did([loader EXCEPT !.popup_at = "sleep"], "monitor")
                 ELSE Did([loader EXCEPT
                             !.popup_at = "dismiss",
                             !.effects = IF PageOpen(loader) /\ loader.launched
                                         THEN @ \cup {"dismiss"} ELSE @],
                          "monitor")
    /\ UNCHANGED <<page_url, current_listings>>
    /\ LifecycleFrame

ProgramStep ==
    \/ Launch \/ NavigateHome \/ StartPopupMonitoring \/ ProcessPendingChat
    \/ CheckChatDone \/ AwaitInput \/ InputTimeout
    \/ BeginSearch \/ GotoDone \/ NavigateDone \/ ExtractDone
    \/ LeaveLoop \/ StopPopupMonitoring \/ Close \/ LoopTeardown

StreamStep ==
    \/ StreamStarts \/ StreamCaptured \/ StreamReloaded
    \/ StreamBadgeChecked \/ StreamSlept

NextLifecycle == ProgramStep \/ StreamStep \/ MonitorStep

SpecLifecycle == InitLifecycle /\ [][NextLifecycle]_vars

(* Every task of the event loop that can run gets to run, and the wait    *)
(* for input ends at its timeout when nothing else ends it                 *)
SpecLifecycleFair ==
    /\ SpecLifecycle
    /\ WF_vars(ProgramStep)
    /\ WF_vars(InputTimeout)
    /\ WF_vars(StreamStep)
    /\ WF_vars(MonitorStep)

----------------------------------------------------------------------------
(* dismiss_popups (src/controller.py).  What the page does in one round of *)
(* the loop is an input:                                                   *)
(*   evaluate_raises  the detection script raises or returns no object     *)
(*   no_overlay       the detection script finds no overlay                *)
(*   locator_clicks   an overlay, and one of the close locators is clicked *)
(*   script_clicks    an overlay, no locator works, the click script       *)
(*                    clicks a close button                                *)
(*   script_raises    an overlay, no locator works, the click script raises*)
(*   nothing_clicks   an overlay, nothing to click, Escape can be pressed  *)
(*   escape_raises    an overlay, nothing to click, pressing Escape raises *)

\* variant: a round that finds no overlay goes on to the next round
Attempt_retryWhenClear(attempt, behaviour) ==
    CASE behaviour \in {"evaluate_raises", "script_raises"} -> "raise"
      [] behaviour \in {"locator_clicks", "script_clicks"} -> "True"
      [] behaviour = "nothing_clicks" /\ attempt >= 1 -> "True"
      [] OTHER -> "fall"

(* The body of the try block of one round: the value it returns, "raise"   *)
(* when an exception leaves it, "fall" when it reaches its end.            *)
Attempt(attempt, behaviour) ==
    CASE behaviour \in {"evaluate_raises", "script_raises"} -> "raise"
      [] behaviour = "no_overlay" -> "False"
      [] behaviour \in {"locator_clicks", "script_clicks"} -> "True"
      [] behaviour = "nothing_clicks" /\ attempt >= 1 -> "True"
      [] OTHER -> "fall"

(* dismiss_popups(max_attempts) on a page behaving as rounds says: what it *)
(* returned, whether an exception left it, and the detection rounds made.  *)
dismiss_popups(page, max_attempts, rounds) ==
    LET RECURSIVE Loop(_)
        Loop(attempt) ==
            IF attempt >= max_attempts
            THEN [returned |-> FALSE, raised |-> FALSE, detections |-> attempt]
            ELSE LET out == Attempt(attempt, rounds[attempt + 1])
                 IN  IF out \in {"True", "False"}
                     THEN [returned |-> out = "True", raised |-> FALSE,
                           detections |-> attempt + 1]
                     ELSE \* except Exception, or the end of the round
                          Loop(attempt + 1)
    IN  IF page = None
        THEN [returned |-> FALSE, raised |-> FALSE, detections |-> 0]
        ELSE Loop(0)

InitPopups ==
    /\ chat_history = EmptyStore
    /\ disk = chat_history
    /\ thread = <<>>
    /\ calc = NoCalc
    /\ listing = ListingA
    /\ call = NoCall
    /\ ops = 0
    /\ llm = NoLLM
    /\ current_listings = <<>>
    /\ conversation_history = <<>>
    /\ page_url \in {None, HomeUrl}
    /\ dispatch = NoDispatch
    /\ loader = NewLoader("main")
    /\ \E page \in {page_url}, max_attempts \in 0..MaxAttempts :
       \E rounds \in [1..max_attempts ->
                        {"evaluate_raises", "no_overlay", "locator_clicks",
                         "script_clicks", "script_raises", "nothing_clicks",
                         "escape_raises"}] :
          popup = [NoPopup EXCEPT !.page = page,
                                  !.max_attempts = max_attempts,
                                  !.rounds = rounds]

DismissPopups ==
    /\ ~popup.done
    /\ \E r \in {dismiss_popups(popup.page, popup.max_attempts, popup.rounds)} :
         popup' = [popup EXCEPT !.done = TRUE, !.returned = r.returned,
                                !.raised = r.raised,
                                !.detections = r.detections]
    /\ UNCHANGED <<engine_vars, llm, controller_vars>>

SpecPopups == InitPopups /\ [][DismissPopups]_vars

----------------------------------------------------------------------------
(* Properties *)

BuyerCount(messages) ==
    Cardinality({i \in 1..Len(messages) : messages[i].role = "lowballer"})

LoggedOffers(messages) ==
    Cardinality({i \in 1..Len(messages) : "offer_price" \in DOMAIN messages[i]})

\* C1: from a freshly created record, after any sequence of sync_conversation,
\* negotiate and respond_to_counter calls, current_round equals the number of
\* lowballer-role messages in the record's transcript.
RoundEqualsBuyerMessages ==
    \A sid \in DOMAIN chat_history :
        chat_history[sid].current_round = BuyerCount(chat_history[sid].messages)

RoundEqualsBuyerMessagesWitness ==
    \E sid \in DOMAIN chat_history :
        /\ chat_history[sid].current_round = 2
        /\ Len(chat_history[sid].messages) > 2
        /\ call.op = "respond"

\* C2: negotiate on a record whose round count already equals
\* max_negotiation_rounds appends no buyer message, sends nothing and sets the
\* status to walked_away.
WalksAwayAtBudget ==
    (call.op = "negotiate" /\ call.round_read = max_negotiation_rounds) =>
        /\ chat_history[call.sid].status = "walked_away"
        /\ chat_history[call.sid].current_round = max_negotiation_rounds
        /\ call.sent = <<>>

\* C3: once a record is accepted, no later negotiate call for that seller
\* increases its current_round (its synchronization step included).
AcceptedRoundFrozen ==
    [][\A sid \in DOMAIN chat_history :
         (/\ chat_history[sid].status = "accepted"
          /\ call'.op = "negotiate"
          /\ call'.sid = sid)
         => chat_history'[sid].current_round <= chat_history[sid].current_round]_vars

\* C4: once a record is accepted, no later negotiate call for that seller
\* logs or sends another offer message, and the call returns the accepted
\* outcome.
AcceptedNoFurtherOffer ==
    [][\A sid \in DOMAIN chat_history :
         (/\ chat_history[sid].status = "accepted"
          /\ call'.op = "negotiate"
          /\ call'.sid = sid)
         => /\ LoggedOffers(chat_history'[sid].messages)
                 = LoggedOffers(chat_history[sid].messages)
            /\ \A i \in 1..Len(call'.sent) : call'.sent[i] # OfferText
            /\ call'.ret = "DEAL ACCEPTED"]_vars

\* C5: after sync_conversation returns from a call with a page, current_round
\* equals the number of lowballer-role messages of the record, whatever the
\* stored counter was and whatever the scrape returned (nothing included).
SyncRecountsAlways ==
    (call.op = "sync" /\ call.page # None) =>
        chat_history[call.sid].current_round
            = BuyerCount(chat_history[call.sid].messages)

\* C6: a second sync_conversation call with the same scraped transcript leaves
\* the store (messages, current_round, status) as it was and returns no new
\* seller messages.
SyncIdempotent ==
    [][(call'.op = "sync" /\ call'.repeat) =>
          (chat_history' = chat_history /\ call'.new = <<>>)]_vars

SyncIdempotentWitness ==
    /\ call.op = "sync"
    /\ call.repeat
    /\ Len(call.scraped) >= 2
    /\ call.scraped[1] = call.scraped[2]
    /\ \E i \in 1..Len(chat_history[call.sid].messages) :
          "synced" \in DOMAIN chat_history[call.sid].messages[i]

\* C7: for a price above the threshold and a round of the schedule (1..4), the
\* computed offer is strictly greater than 0 and strictly less than the price.
OfferStrictlyInsidePrice ==
    (/\ calc.price > AccuratePriceThreshold
     /\ calc.round_num \in DOMAIN ackerman_percentages)
    => (0 < calc.offer /\ calc.offer < calc.price)

\* C8: for consecutive rounds r, r+1 of the schedule and any jitter in each,
\* the offer of round r is at most the offer of round r+1 (stated here for the
\* prices at which negotiate makes arithmetic offers).
OffersNonDecreasing ==
    [][(/\ calc.price > AccuratePriceThreshold
        /\ calc.current_round >= 1
        /\ calc'.current_round = calc.current_round + 1
        /\ calc'.current_round \in DOMAIN ackerman_percentages)
       => calc.offer <= calc'.offer]_vars

\* C9: for a round beyond the schedule (r > 4) the offer is one of the offers
\* of the final tier, 100% of the price plus a jitter (at least 1), both when
\* _calculate_offer gets r itself and when negotiate caps the round; and the
\* set of possible offers for r is the set for round 4.
FinalTierOffers(price) == {Max2(price + o, 1) : o \in JitterOffsets}

OffersFor(price, round_num) ==
    {_calculate_offer(price, round_num, o) : o \in JitterOffsets}

BeyondScheduleUsesFinalTier ==
    /\ calc.current_round > FinalTier => calc.offer \in FinalTierOffers(calc.price)
    /\ \A r \in (FinalTier + 1)..MaxCalcRound :
          OffersFor(listing.price, r) = OffersFor(listing.price, FinalTier)

BeyondScheduleWitness ==
    /\ calc.current_round > FinalTier
    /\ calc.round_num = calc.current_round
    /\ calc.price > AccuratePriceThreshold
    /\ calc.offer = calc.price + 8

\* C10 as stated: for price 800 every round-1 offer lies in [515, 525].
RoundOneWithinFive ==
    (calc.price = 800 /\ calc.current_round = 1) =>
        (515 <= calc.offer /\ calc.offer <= 525)

\* C10, amended: for price 800 every round-1 offer lies in [513, 528]
\* (jitter between -7 and +8 around 520).
RoundOneWithinJitter ==
    (calc.price = 800 /\ calc.current_round = 1) =>
        (513 <= calc.offer /\ calc.offer <= 528)

RoundOneWitness ==
    calc.price = 800 /\ calc.current_round = 1 /\ calc.offer = 513

\* C11: whatever the listing price (0 and small prices included), the round
\* and the jitter drawn, the computed offer is at least 1.
OfferAtLeastOne ==
    calc.current_round >= 1 => calc.offer >= 1

OfferAtLeastOneWitness ==
    /\ calc.current_round >= 1
    /\ calc.price = 0
    /\ calc.offer = 1

\* C12: for every listing price and round, the computed offer is not a
\* multiple of 10.
OfferNeverRoundNumber ==
    calc.current_round >= 1 => calc.offer % 10 # 0

IsPrefix(a, b) ==
    /\ Len(a) <= Len(b)
    /\ \A i \in 1..Len(a) : a[i] = b[i]

\* C16: calling negotiate or sync_conversation again for the same listing
\* resumes its record: the store never holds a second record for the listing,
\* a call that reached the page leaves exactly one, and every call keeps the
\* earlier transcript as a prefix and never lowers the round count.
ResumesExistingRecord ==
    /\ [](Cardinality(DOMAIN chat_history) <= 1)
    /\ []((/\ call.op \in {"sync", "negotiate"}
           /\ call.ret # "KeyError"
           /\ ~(call.op = "sync" /\ call.page = None))
          => DOMAIN chat_history = {call.sid})
    /\ [][\A sid \in DOMAIN chat_history :
            /\ sid \in DOMAIN chat_history'
            /\ IsPrefix(chat_history[sid].messages, chat_history'[sid].messages)
            /\ chat_history'[sid].current_round >= chat_history[sid].current_round
            /\ chat_history'[sid].listing = chat_history[sid].listing]_vars

ResumesExistingRecordWitness ==
    /\ call.op = "negotiate"
    /\ call.round_read = 1
    /\ DOMAIN chat_history = {call.sid}
    /\ chat_history[call.sid].current_round = 2
    /\ Len(chat_history[call.sid].messages) >= 2

DiskEqualsStoreAfterOperation ==
    call.op # "none" => disk = chat_history

ProviderFailed(response) == response.raised \/ response.has_error

\* C25: in every state a record that has a final_price has status accepted,
\* and a record that is accepted stays accepted in every step.
FinalPriceOnlyWhenAccepted ==
    /\ [](\A sid \in DOMAIN chat_history :
            "final_price" \in DOMAIN chat_history[sid]
               => chat_history[sid].status = "accepted")
    /\ [][\A sid \in DOMAIN chat_history :
            chat_history[sid].status = "accepted"
               => /\ sid \in DOMAIN chat_history'
                  /\ chat_history'[sid].status = "accepted"]_vars

FinalPriceWitness ==
    /\ call.op = "negotiate"
    /\ call.ret \in {"Sent message", "Generated message"}
    /\ call.sid \in DOMAIN chat_history
    /\ "final_price" \in DOMAIN chat_history[call.sid]
    /\ chat_history[call.sid].status = "accepted"

SamePair(a, b) == a.role = b.role /\ a.content = b.content

(* The scraped pairs without a match in the transcript, each once (at its   *)
(* first place in the scrape), in the order of the scrape                   *)
FreshPairs(scraped_messages, before) ==
    LET Positions ==
            {i \in 1..Len(scraped_messages) :
                /\ \A k \in 1..Len(before) : ~SamePair(before[k], scraped_messages[i])
                /\ \A j \in 1..(i - 1) :
                      ~SamePair(scraped_messages[j], scraped_messages[i])}
        Rank(i) == Cardinality({j \in Positions : j <= i})
    IN  [k \in 1..Cardinality(Positions) |->
            scraped_messages[CHOOSE i \in Positions : Rank(i) = k]]

TranscriptOf(hist, sid) == IF sid \in DOMAIN hist THEN hist[sid].messages ELSE <<>>

\* C26: sync_conversation only appends: the transcript before the call is a
\* prefix of the transcript after it, and the entries appended are exactly the
\* scraped (role, content) pairs without an exact match in the transcript,
\* each once, in the order of the scrape.
SyncOnlyAppends ==
    [][(call'.op = "sync" /\ ops' = ops + 1 /\ call'.page # None) =>
         LET before == TranscriptOf(chat_history, call'.sid)
             after == TranscriptOf(chat_history', call'.sid)
             fresh == FreshPairs(call'.scraped, before)
         IN  /\ IsPrefix(before, after)
             /\ Len(after) = Len(before) + Len(fresh)
             /\ \A k \in 1..Len(fresh) :
                   SamePair(after[Len(before) + k], fresh[k])]_vars

SyncOnlyAppendsWitness ==
    /\ call.op = "sync"
    /\ Len(call.scraped) = 3
    /\ SamePair(call.scraped[1], call.scraped[3])
    /\ call.scraped[1].role = "seller"
    /\ SamePair(call.scraped[2], PriorOffer(ListingD, 1))
    /\ Len(chat_history[call.sid].messages) = 2
    /\ chat_history[call.sid].messages[1] = PriorOffer(ListingD, 1)
    /\ chat_history[call.sid].messages[2] = SyncedEntry(call.scraped[1])

\* C27: when negotiate classified the latest seller message as ACCEPT, the
\* record is accepted, nothing but the fixed confirmation was sent, every
\* entry the transcript gained was added by the synchronization step, and
\* current_round is the value the synchronization step left.
AcceptReturnsImmediately ==
    [][(call'.op = "negotiate" /\ ops' = ops + 1 /\ call'.ret = "DEAL ACCEPTED") =>
         LET before == TranscriptOf(chat_history, call'.sid)
             after == TranscriptOf(chat_history', call'.sid)
         IN  /\ chat_history'[call'.sid].status = "accepted"
             /\ IsPrefix(before, after)
             /\ \A k \in (Len(before) + 1)..Len(after) :
                   "synced" \in DOMAIN after[k]
             /\ LoggedOffers(after) = LoggedOffers(before)
             /\ chat_history'[call'.sid].current_round = call'.round_read
             /\ call'.sent \in {<<>>, <<ConfirmText>>}
             /\ thread' = thread \o
                   [k \in 1..Len(call'.sent) |->
                       [role |-> "lowballer", content |-> call'.sent[k]]]]_vars

AcceptReturnsWitness ==
    /\ call.op = "negotiate"
    /\ call.ret = "DEAL ACCEPTED"
    /\ call.sent = <<ConfirmText>>
    /\ call.round_read = 1
    /\ chat_history[call.sid].status = "accepted"
    /\ Len(chat_history[call.sid].messages) = 2
    /\ "synced" \in DOMAIN chat_history[call.sid].messages[2]

EffectOn(r, sid) ==
    [status |-> r.hist[sid].status,
     current_round |-> r.hist[sid].current_round,
     appended |-> Len(r.hist[sid].messages),
     tier |-> r.calc,
     sent |-> r.sent,
     ret |-> r.ret]

\* C28: from every reachable state and for every page, scrape, jitter and
\* send outcome, the negotiate run in which the classifier answers REJECT and
\* the run in which it answers COUNTER leave the same status, current_round,
\* number of messages and computed offer, send the same and return the same.
RejectSameAsCounter ==
    \A page \in Pages :
    \A scraped_messages \in ScrapeOutcomes(thread, page),
       offset \in JitterOutcomes(listing), send_ok \in SendOutcomes(page) :
    \A rejected \in {negotiate(chat_history, disk, thread, calc, listing, page,
                                scraped_messages, "REJECT", offset, send_ok)},
       countered \in {negotiate(chat_history, disk, thread, calc, listing, page,
                                 scraped_messages, "COUNTER", offset, send_ok)},
       sid \in {_get_seller_id(listing)} :
           /\ rejected.ret = "KeyError" <=> countered.ret = "KeyError"
           /\ rejected.ret # "KeyError" =>
                 EffectOn(rejected, sid) = EffectOn(countered, sid)

RejectSameAsCounterWitness ==
    /\ call.op = "negotiate"
    /\ call.ret = "Sent message"
    /\ listing.price > AccuratePriceThreshold
    /\ \E offset \in JitterOutcomes(listing) :
         /\ ConsultsClassifier(chat_history, disk, listing, "page", thread)
         /\ LET rejected == negotiate(chat_history, disk, thread, calc, listing,
                                      "page", thread, "REJECT", offset, TRUE)
                sid == _get_seller_id(listing)
            IN  /\ rejected.ret = "Sent message"
                /\ rejected.calc.round_num = 2
                /\ rejected.hist[sid].current_round = 2
                /\ rejected.hist[sid].status = "active"

LastOf(messages) == messages[Len(messages)]

\* C29: a negotiate call that reaches its offer step computes a tier offer
\* exactly when the listing price is above 100: then _calculate_offer is
\* called for the round capped at 4 and its amount is logged; for a price
\* of 100 or less no offer is computed and the logged buyer message records
\* the offer as contextual.
TierOfferOnlyAboveThreshold ==
    [][(/\ call'.op = "negotiate"
        /\ ops' = ops + 1
        /\ call'.ret \in {"Sent message", "Generated message"}) =>
         LET logged == LastOf(chat_history'[call'.sid].messages)
         IN  IF listing.price > 100
             THEN /\ calc'.price = listing.price
                  /\ calc'.current_round = call'.round_read + 1
                  /\ calc'.round_num = Min2(call'.round_read + 1, 4)
                  /\ calc'.offer \in OffersFor(listing.price, calc'.round_num)
                  /\ logged.offer_price = Amount(calc'.offer)
             ELSE /\ calc' = calc
                  /\ logged.offer_price = Contextual]_vars

TierOfferAboveWitness ==
    /\ call.op = "negotiate"
    /\ call.ret = "Sent message"
    /\ listing.price = 101
    /\ calc.price = 101
    /\ calc.current_round = 2
    /\ LastOf(chat_history[call.sid].messages).offer_price = Amount(calc.offer)

(* The strings of negotiate that tell the caller a message went out:      *)
(* "Sent message for ..." and "DEAL ACCEPTED! ... Confirmation sent."      *)
ReportsSent(ret) == ret \in {"Sent message", "DEAL ACCEPTED"}

\* C30: the string negotiate returns reports a message as sent exactly when
\* the message it tried to send reached the chat, for the offer message and
\* for the confirmation message alike.
StatusReportsDelivery ==
    (call.op = "negotiate" /\ call.ret # "KeyError") =>
        (ReportsSent(call.ret) <=> call.sent # <<>>)

\* C21: after any number of run() calls the dispatcher's conversation history
\* holds at most the 10 most recent turns.
HistoryBounded ==
    Len(conversation_history) <= HistoryWindow

BackgroundSteps == {"stream", "monitor"}

\* C22: once the program has left its loop and closed the browser, every
\* background task that was started eventually stops iterating.
ShutdownStopsTasks ==
    (loader.main = "closed") ~>
        (loader.stream_task # "running" /\ loader.popup_task # "running")

\* C23: while a dispatcher action is in progress no step of a background
\* task changes the location of the page, and the only things the background
\* tasks ever do to the page are capturing screenshots and closing overlays.
BackgroundNeverMovesPage ==
    /\ [][(loader.main \in {"navigating", "settling", "extracting"}
           /\ page_url' # page_url)
          => loader'.step \notin BackgroundSteps]_vars
    /\ [](loader.effects \subseteq {"screenshot", "dismiss"})

\* C24: every call of launch, the first included, returns the triple and
\* leaves the loader launched.
LaunchReturnsTriple ==
    [][loader'.step = "launch" /\ loader' # loader =>
          (loader'.returned = "triple" /\ loader'.launched /\ loader'.has_page)]_vars

\* C17: the classification is one of ACCEPT, COUNTER, REJECT, and when the
\* provider failed (raised, or returned an error result, whatever the error
\* text) it is COUNTER and the record is not marked accepted.
FailureClassifiedCounter ==
    llm.op = "analyze" =>
        /\ llm.analysis \in Analyses
        /\ ProviderFailed(llm.response) =>
              (llm.analysis = "COUNTER" /\ ~llm.marked)

PoolOf(round_num) ==
    LET pool == IF round_num \in DOMAIN fallbacks THEN round_num ELSE LastPool
    IN  {fallbacks[pool][k] : k \in FallbackOptions}

\* C18: the generated message is never empty, and when the provider raised,
\* reported an error or returned empty content it is a template of the
\* round's pool (of the last pool for a round without its own).
MessageNeverEmpty ==
    llm.op = "generate" =>
        /\ llm.message # <<>>
        /\ (\/ ProviderFailed(llm.response)
            \/ Strip(llm.response.content, Whitespace) = <<>>)
           => llm.message \in PoolOf(llm.round_num)

KnownPositions(tool_calls) ==
    LET Known(i) == tool_calls[i].name \in tool_handlers
    IN  SelectSeq([i \in 1..Len(tool_calls) |-> i], Known)

\* C13: for a batch of n tool calls the dispatcher returns n outcome lines in
\* the order of the calls; an unknown tool, a call with bad arguments and a
\* handler that raised each give a failure line, and the handler of every
\* known tool in the batch is invoked, in order, whatever failed before it.
BatchRunsEveryAction ==
    dispatch.tool_calls # <<>> =>
        /\ Len(dispatch.results) = Len(dispatch.tool_calls)
        /\ \A i \in 1..Len(dispatch.tool_calls) :
              /\ dispatch.results[i].tool = dispatch.tool_calls[i].name
              /\ dispatch.tool_calls[i].name \notin tool_handlers
                    => dispatch.results[i] = UnknownTool(dispatch.tool_calls[i])
              /\ dispatch.tool_calls[i].bad_arguments
                    => ~dispatch.results[i].ok
              /\ dispatch.results[i].ok
                    => dispatch.results[i].text[1] # "Error"
        /\ dispatch.executed = KnownPositions(dispatch.tool_calls)

BatchRunsEveryActionWitness ==
    /\ Len(dispatch.tool_calls) = 2
    /\ dispatch.tool_calls[1].name = "search_carousell"
    /\ ~dispatch.tool_calls[1].bad_arguments
    /\ dispatch.results[1] = Failure("search_carousell", <<"Error", "TypeError">>)
    /\ dispatch.results[2].ok
    /\ dispatch.results[2].tool = "delegate_lowball"
    /\ dispatch.executed = <<1, 2>>

OnlyInvalidIndexes(tool_calls, listings) ==
    /\ tool_calls # <<>>
    /\ \A i \in 1..Len(tool_calls) :
          /\ tool_calls[i].name \in IndexedTools
          /\ ~tool_calls[i].bad_arguments
          /\ OutOfRange(tool_calls[i].listing_index, listings)

NamesValidRange(line, listings) ==
    /\ line.ok
    /\ Len(line.text) = 3
    /\ line.text[1] = "Invalid listing index. Valid range:"
    /\ line.text[2] = 0
    /\ line.text[3] = Len(listings) - 1

\* C14 as stated: whatever the current listings, open_listing, open_chat and
\* delegate_lowball with an index outside [0, len) return a string naming the
\* valid range, without raising, and leave the current listings as they were.
InvalidIndexNamesRange ==
    OnlyInvalidIndexes(dispatch.tool_calls, dispatch.before) =>
        /\ \A i \in 1..Len(dispatch.results) :
              NamesValidRange(dispatch.results[i], dispatch.before)
        /\ current_listings = dispatch.before

\* C14, amended: with listings present the three handlers return the string
\* naming the range 0..len-1; with no listings they return "No listings
\* available. Search first."; in both cases they do not raise and leave the
\* current listings as they were.
InvalidIndexRejected ==
    OnlyInvalidIndexes(dispatch.tool_calls, dispatch.before) =>
        /\ \A i \in 1..Len(dispatch.results) :
              IF dispatch.before = <<>>
              THEN dispatch.results[i] =
                      Success(dispatch.tool_calls[i].name, NoListings)
              ELSE NamesValidRange(dispatch.results[i], dispatch.before)
        /\ current_listings = dispatch.before

InvalidIndexWitness ==
    /\ dispatch.before # <<>>
    /\ Len(dispatch.tool_calls) = 1
    /\ dispatch.tool_calls[1].name = "delegate_lowball"
    /\ dispatch.tool_calls[1].listing_index = Len(dispatch.before)
    /\ dispatch.results[1].text = <<"Invalid listing index. Valid range:", 0, 4>>

UnderOrEqual(listings, max_price) ==
    LET Positions == {i \in 1..Len(listings) :
                        0 < listings[i].price /\ listings[i].price <= max_price}
        Rank(i) == Cardinality({j \in Positions : j <= i})
    IN  [k \in 1..Cardinality(Positions) |->
            listings[CHOOSE i \in Positions : Rank(i) = k]]

\* C15: after a search with a max_price that reached the results page, the
\* current listings are the parsed listings with 0 < price <= max_price in
\* their original order, whatever the list held before.
SearchKeepsListingsUnderMaxPrice ==
    LET n == Len(dispatch.tool_calls)
    IN  (/\ n >= 1
         /\ dispatch.tool_calls[n].name = "search_carousell"
         /\ ~dispatch.tool_calls[n].bad_arguments
         /\ dispatch.tool_calls[n].max_price.kind = "number"
         /\ dispatch.tool_calls[n].env = Smooth
         /\ page_url # None)
        => current_listings =
              UnderOrEqual(get_mock_listings, dispatch.tool_calls[n].max_price.value)

\* C31: every listing of the dispatcher's current listings has an index field
\* equal to the position by which open_listing, open_chat and delegate_lowball
\* select it (0-based), after any sequence of searches and extractions.
IndexEqualsPosition ==
    \A i \in 1..Len(current_listings) : current_listings[i].index = i - 1

\* C32: when check_chat replied to the unread thread of the seller whose
\* record delegate_lowball created, the store holds the same sellerIds
\* afterwards (no record is created) and every record continues: its
\* transcript extends the one before and its round count does not restart.
CheckChatContinuesRecord ==
    [][(/\ Len(dispatch'.tool_calls) = 1
        /\ dispatch'.tool_calls[1].name = "check_chat"
        /\ dispatch'.results[1].text = <<"Reply mode complete.", 1, 1>>
        /\ dispatch' # dispatch
        /\ _get_seller_id(get_mock_listings[1]) \in DOMAIN chat_history)
       => /\ DOMAIN chat_history' = DOMAIN chat_history
          /\ \A sid \in DOMAIN chat_history :
                /\ IsPrefix(chat_history[sid].messages, chat_history'[sid].messages)
                /\ chat_history'[sid].current_round >= chat_history[sid].current_round
      ]_vars

IdleRefreshWhenSent ==
    [][(/\ dispatch' # dispatch
        /\ Len(dispatch'.tool_calls) = 1
        /\ dispatch'.tool_calls[1].name = "delegate_lowball")
       => /\ dispatch'.results[1].text = <<"Sent message">>
                => page_url' = HomeUrl
          /\ dispatch'.results[1].text = <<"Generated message">>
                => page_url' # HomeUrl
      ]_vars

\* C35: a dismiss_popups call ends after at most max_attempts detection
\* rounds, returns a boolean and raises nothing, whatever the page does (no
\* page, scripts that raise, clicks that fail), and the round in which no
\* overlay is detected is its last one and makes it return False.
DismissalBoundedAndAdvisory ==
    popup.done =>
        /\ ~popup.raised
        /\ popup.returned \in BOOLEAN
        /\ popup.detections <= popup.max_attempts
        /\ \A k \in 1..popup.max_attempts :
              (popup.page # None /\ popup.rounds[k] = "no_overlay")
                  => /\ popup.detections <= k
                     /\ popup.detections = k => ~popup.returned

DismissalWitness ==
    /\ popup.done
    /\ popup.page # None
    /\ popup.max_attempts = 2
    /\ popup.rounds = <<"script_raises", "no_overlay">>
    /\ popup.detections = 2
    /\ ~popup.returned

(* The flag is cleared only by the main loop at the top of an iteration,   *)
(* in the step that starts the inbox turn                                  *)
FlagConsumedBetweenTurns ==
    (loader.pending_chat_action /\ ~loader'.pending_chat_action)
        => /\ loader.main = "top"
           /\ loader'.main = "checking"
           /\ loader'.step = "check_chat"

\* C36 as stated: in main(), whenever pending_chat_action is set the main
\* loop eventually clears it and starts an inbox turn; the flag is cleared
\* only between turns and before the inbox turn starts.
PendingChatEventuallyProcessed ==
    /\ (loader.flow = "main" /\ loader.pending_chat_action)
           ~> ~loader.pending_chat_action
    /\ [][FlagConsumedBetweenTurns]_vars

\* C36, amended: in main(), whenever pending_chat_action is set the main
\* loop eventually clears it and starts an inbox turn, unless the program
\* has left its loop ('quit') first; the flag is cleared only between turns
\* and before the inbox turn starts.
PendingChatProcessedUnlessQuit ==
    /\ (loader.flow = "main" /\ loader.pending_chat_action)
           ~> (\/ ~loader.pending_chat_action
               \/ loader.main \in {"exited", "closed", "torn_down"})
    /\ [][FlagConsumedBetweenTurns]_vars

PendingChatWitness ==
    /\ loader.flow = "main"
    /\ loader.main = "checking"
    /\ loader.step = "check_chat"
    /\ ~loader.pending_chat_action
    /\ "goto" \in loader.effects

\* C37: every negotiate call returns one of its status strings and raises
\* nothing, whatever the listing and the page handle, an absent page with a
\* seller that has no record included.
NegotiateReturnsStatus ==
    call.op = "negotiate"
        => call.ret \in {"Sent message", "Generated message", "DEAL ACCEPTED"}

\* C38: every run() call appends exactly two turns to the dispatcher
\* history, the user turn and then one assistant turn whose content is what
\* the call returned (the outcome lines, or the free-text reply), so the
\* history alternates user and assistant turns.
RunAppendsUserThenAssistant ==
    /\ [][dispatch' # dispatch =>
            LET n == Len(conversation_history)
            IN  /\ Len(conversation_history') = n + 2
                /\ SubSeq(conversation_history', 1, n) = conversation_history
                /\ conversation_history'[n + 1] = UserTurn
                /\ conversation_history'[n + 2].role = "assistant"
                /\ conversation_history'[n + 2].content = dispatch'.returned
         ]_vars
    /\ [](\A i \in 1..Len(conversation_history) :
            conversation_history[i].role =
                IF i % 2 = 1 THEN "user" ELSE "assistant")

(* A run answered with one tool call, then a run answered with text *)
RunAppendsWitness ==
    /\ Len(conversation_history) = 4
    /\ dispatch.count = 2
    /\ dispatch.tool_calls = <<>>
    /\ dispatch.returned = FreeText
    /\ conversation_history[4] = AssistantTurn(FreeText)

====
